---- MODULE Spec2Model ----
(***************************************************************************)
(* Model of the storybook generation orchestrator of the illustration      *)
(* server: generate_illustration (src/main.py) driving the Firestore       *)
(* recorder (src/services/firebase_service.py).                            *)
(*                                                                         *)
(* One run of generate_illustration is a scheduler coroutine (pc) and one  *)
(* asyncio task per stanza (tasks), all on one event loop.  The Firestore  *)
(* client is synchronous, so the scheduler only suspends in                *)
(* asyncio.wait_for (on a stanza task); every other stretch of the handler *)
(* is one atomic step.  Every Recorder call may raise.                     *)
(*                                                                         *)
(* A stanza task suspends only where the Gemini provider fetches a         *)
(* reference over HTTP (aiohttp).  The backend call of both providers is a *)
(* call of a synchronous client inside the coroutine: it returns without   *)
(* giving the event loop back, so nothing else runs until it has returned  *)
(* (blocking).  The clock (now) counts in units of which TimeoutT make the *)
(* 300 seconds of wait_for.                                                *)
(***************************************************************************)
EXTENDS Integers, Sequences, FiniteSets, TLC

\* Largest number of stanzas a modelled poem segments to.
MaxStanzas == 3

\* Number of concurrent add_illustration calls on one storybook (SpecAdd).
MaxCallers == 2

\* Longest poem text, in characters (SpecFn).
MaxPoemLen == 7

\* Longest stanza text matched against names, in characters (SpecFn).
MaxStanzaLen == 3

\* Longest list of names given to get_names_in_stanza (SpecFn).
MaxNames == 2

\* Longest list of family members of a request (SpecRefs).
MaxFamily == 3

\* Longest list of reference images given to a provider (SpecProvider).
MaxRefs == 2

\* Largest number of candidates in a backend response (SpecProvider).
MaxCandidates == 2

\* Largest number of sections in the styles file (SpecStyle).
MaxSections == 2

\* Deepest nesting of calls the interpreter allows before it raises
\* RecursionError (SpecStyle).
RecursionLimit == 4

\* The clock stops at MaxTime.
MaxTime == 3

\* The timeout of asyncio.wait_for (main.py:401), in clock units.
TimeoutT == 2

VARIABLES
    total_stanzas,     \* len(stanzas) of the request's poem
    pc,                \* position of generate_illustration
    stanza_num,        \* loop variable of the result loop (main.py:398)
    tasks,             \* stanza number -> state of its asyncio task
    image_data,        \* keys of the response's stanza -> image map
    errors,            \* the error list (main.py:396)
    cover_image,       \* local cover_image is not None
    cover_called,      \* generate_storybook_cover was invoked
    sb_exists,         \* the storybook document was written
    sb_status,         \* its 'status' field
    sb_illustrations,  \* its 'illustrations' array
    sb_cover,          \* its 'coverUrl' field is set
    rec_failed,        \* Recorder operations that raised during the run
    status_writes,     \* number of successful update_storybook_status calls
    response,          \* the IllustrationResponse returned, status "none" before
    callers,           \* concurrent add_illustration callers (SpecAdd only)
    call,              \* the last call of a pure helper, with its arguments
                       \* and result (SpecFn, SpecRefs only)
    completion_order,  \* stanza numbers in the order their tasks finished
    provider,          \* the generator get_image_generator returns for the request
    blocking,          \* stanza whose backend call holds the event loop, 0 if none
    now,               \* the clock
    wait_started,      \* when the current wait_for began
    provider_calls,    \* stanza number (0: the cover) -> calls of the provider
    provider_refs,     \* the kinds of photo reference given to the provider
    sb_error,          \* the storybook's 'error' field
    sb_photos          \* the kind of photo reference in the storybook's 'request'

vars == <<total_stanzas, pc, stanza_num, tasks, image_data, errors, cover_image,
          cover_called, sb_exists, sb_status, sb_illustrations, sb_cover,
          rec_failed, status_writes, response, callers, call, completion_order,
          provider, blocking, now, wait_started, provider_calls, provider_refs,
          sb_error, sb_photos>>

\* The event loop's part of the state.
loopVars == <<provider, blocking, now, wait_started, provider_calls, provider_refs>>

schedVars == <<total_stanzas, pc, stanza_num, tasks, image_data, errors,
               cover_image, cover_called, rec_failed, status_writes, response,
               completion_order, loopVars, sb_error, sb_photos>>

Stanzas == 1..total_stanzas

\* No helper was called.
NoCall == [fn |-> "none"]

\* The generators of the factory (services/image_generator/factory.py).
Generators == {"OpenAIGenerator", "GeminiGenerator"}

\* The photos of the request object are the inline payloads the client sent:
\* create_storybook is given request.dict(), a copy (main.py:363), and the tasks
\* and the cover read the request object (main.py:181, 301).
RequestPhotos == "inline"

\* asyncio.create_task for every stanza happens in the dispatch step, at clock 0.
LaunchTime == 0

\* The states of a task that has not ended.
InFlight == {"created", "fetching", "calling"}

NoResponse == [status |-> "none", image_data |-> {}, cover_image |-> FALSE,
               message |-> "none"]

\* IllustrationResponse(status="error", ...) of both except clauses (main.py:484-497).
ErrorResponse == [status |-> "error", image_data |-> {}, cover_image |-> FALSE,
                  message |-> "Failed to generate illustrations"]

\* Faulty variant of SuccessMessage: the message counts the stanzas of the poem
\* instead of the generated images.
SuccessMessage_CountsStanzas ==
    [count |-> total_stanzas, total |-> total_stanzas,
     errors |-> errors, all |-> (errors = <<>>), cover |-> cover_image]

\* The success message (main.py:467-474), kept structured.
SuccessMessage ==
    [count |-> Cardinality(image_data), total |-> total_stanzas,
     errors |-> errors, all |-> (errors = <<>>), cover |-> cover_image]

\* Faulty variant of SuccessResponse: any per-stanza error turns the response
\* status into "error".
SuccessResponse_Strict ==
    [status |-> IF errors = <<>> THEN "success" ELSE "error",
     image_data |-> image_data, cover_image |-> cover_image,
     message |-> SuccessMessage]

\* IllustrationResponse(status="success", ...) (main.py:477-482).
SuccessResponse == [status |-> "success", image_data |-> image_data,
                    cover_image |-> cover_image, message |-> SuccessMessage]

\* Faulty variant of IllustrationRecord: the record carries the index of
\* enumerate(stanzas) instead of the stanza number.
IllustrationRecord_ZeroBased(k) == [stanzaNumber |-> k - 1]

\* The illustration record add_illustration appends (firebase_service.py:454-459).
IllustrationRecord(k) == [stanzaNumber |-> k]

Init ==
    /\ total_stanzas \in 0..MaxStanzas
    /\ pc = "create"
    /\ stanza_num = 0
    /\ tasks = [k \in 1..total_stanzas |-> "none"]
    /\ image_data = {}
    /\ errors = <<>>
    /\ cover_image = FALSE
    /\ cover_called = FALSE
    /\ sb_exists = FALSE
    /\ sb_status = "absent"
    /\ sb_illustrations = <<>>
    /\ sb_cover = FALSE
    /\ rec_failed = {}
    /\ status_writes = 0
    /\ response = NoResponse
    /\ callers = <<>>
    /\ call = NoCall
    /\ completion_order = <<>>
    /\ provider \in Generators
    /\ blocking = 0
    /\ now = 0
    /\ wait_started = 0
    /\ provider_calls = [k \in 0..total_stanzas |-> 0]
    /\ provider_refs = {}
    /\ sb_error = "unset"
    /\ sb_photos = "absent"

\* Faulty variant of OnCreateFailure: the failure is ignored and the handler
\* goes on to dispatch the stanza tasks.
OnCreateFailure_Continue ==
    /\ pc' = "dispatch"
    /\ UNCHANGED response

\* The exception of create_storybook leaves the try block for the except clause,
\* which returns the error response (main.py:361, 491-497).
OnCreateFailure ==
    /\ response' = ErrorResponse
    /\ pc' = "done"

\* create_storybook (firebase_service.py:219-300): the photos of request_data are
\* stored and replaced by their storage paths, and the document is written by the
\* last statement, so a raise (unknown user, image store failure) writes nothing.
CreateStorybook ==
    /\ pc = "create"
    /\ \E ok \in BOOLEAN :
        IF ok
        THEN /\ sb_exists' = TRUE
             /\ sb_status' = "pending"
             /\ sb_illustrations' = <<>>
             /\ sb_photos' = "stored"
             /\ pc' = "dispatch"
             /\ UNCHANGED <<rec_failed, response>>
        ELSE /\ rec_failed' = rec_failed \cup {"create_storybook"}
             /\ OnCreateFailure
             /\ UNCHANGED <<sb_exists, sb_status, sb_illustrations, sb_photos>>
    /\ UNCHANGED <<total_stanzas, stanza_num, tasks, image_data, errors,
                   cover_image, cover_called, sb_cover, status_writes, callers,
                   call, completion_order, loopVars, sb_error>>

\* The dispatch loop (main.py:381-392): no await between the create_task calls;
\* the handler goes straight on to its first wait_for (main.py:401).
Dispatch ==
    /\ pc = "dispatch"
    /\ tasks' = [k \in Stanzas |-> "created"]
    /\ stanza_num' = 1
    /\ wait_started' = now
    /\ pc' = IF total_stanzas = 0 THEN "check" ELSE "await"
    /\ UNCHANGED <<total_stanzas, image_data, errors, cover_image, cover_called,
                   sb_exists, sb_status, sb_illustrations, sb_cover, rec_failed,
                   status_writes, response, callers, call, completion_order,
                   provider, blocking, now, provider_calls, provider_refs,
                   sb_error, sb_photos>>

\* Task k is the next of the event loop's ready queue: the tasks take their first
\* step in the order of their creation, while the handler is suspended.
Ready(k) ==
    /\ pc = "await"
    /\ blocking = 0
    /\ tasks[k] = "created"
    /\ \A j \in Stanzas : j < k => tasks[j] # "created"

\* Every task has taken its first step: the handler's wake-up is queued behind
\* the first steps of the tasks.
AllStarted == \A j \in Stanzas : tasks[j] # "created"

\* The first step of generate_illustration_for_stanza up to the provider call
\* (main.py:176-272).  The Gemini generator suspends if it fetches a reference
\* over HTTP (gemini_generator.py:49-53, 78); otherwise the task goes on into
\* the backend call (gemini_generator.py:86, openai_generator.py:41).
TaskStart(k) ==
    /\ Ready(k)
    /\ provider_calls' = [provider_calls EXCEPT ![k] = @ + 1]
    /\ provider_refs' = provider_refs \cup {RequestPhotos}
    /\ \E suspends \in BOOLEAN :
          /\ suspends => provider = "GeminiGenerator"
          /\ tasks' = [tasks EXCEPT ![k] = IF suspends THEN "fetching" ELSE "calling"]
          /\ blocking' = IF suspends THEN 0 ELSE k
    /\ UNCHANGED <<total_stanzas, pc, stanza_num, image_data, errors, cover_image,
                   cover_called, sb_exists, sb_status, sb_illustrations, sb_cover,
                   rec_failed, status_writes, response, callers, call,
                   completion_order, provider, now, wait_started, sb_error,
                   sb_photos>>

\* The fetches of task k have ended and the task enters the backend call
\* (gemini_generator.py:78-95).
TaskFetched(k) ==
    /\ pc = "await"
    /\ blocking = 0
    /\ AllStarted
    /\ tasks[k] = "fetching"
    /\ tasks' = [tasks EXCEPT ![k] = "calling"]
    /\ blocking' = k
    /\ UNCHANGED <<total_stanzas, pc, stanza_num, image_data, errors, cover_image,
                   cover_called, sb_exists, sb_status, sb_illustrations, sb_cover,
                   rec_failed, status_writes, response, callers, call,
                   completion_order, provider, now, wait_started, provider_calls,
                   provider_refs, sb_error, sb_photos>>

\* The backend call returned an image and generate_illustration_for_stanza
\* returns it (main.py:277).
TaskReturnsImage(k) ==
    /\ pc = "await"
    /\ blocking = k
    /\ tasks[k] = "calling"
    /\ tasks' = [tasks EXCEPT ![k] = "image"]
    /\ blocking' = 0
    /\ completion_order' = Append(completion_order, k)
    /\ UNCHANGED <<total_stanzas, pc, stanza_num, image_data, errors, cover_image,
                   cover_called, sb_exists, sb_status, sb_illustrations, sb_cover,
                   rec_failed, status_writes, response, callers, call, provider,
                   now, wait_started, provider_calls, provider_refs, sb_error,
                   sb_photos>>

\* generate_illustration_for_stanza raises: the template could not be formatted
\* (main.py:252-262), before the provider is called, or the provider returned
\* nothing (ValueError, main.py:274-275); both are re-raised at main.py:279-281.
TaskRaises(k) ==
    /\ \/ /\ Ready(k)
          /\ tasks' = [tasks EXCEPT ![k] = "raised_template"]
          /\ UNCHANGED blocking
       \/ /\ pc = "await"
          /\ blocking = k
          /\ tasks[k] = "calling"
          /\ tasks' = [tasks EXCEPT ![k] = "raised_provider"]
          /\ blocking' = 0
    /\ completion_order' = Append(completion_order, k)
    /\ UNCHANGED <<total_stanzas, pc, stanza_num, image_data, errors, cover_image,
                   cover_called, sb_exists, sb_status, sb_illustrations, sb_cover,
                   rec_failed, status_writes, response, callers, call, provider,
                   now, wait_started, provider_calls, provider_refs, sb_error,
                   sb_photos>>

\* Time passes while a backend call holds the event loop, or while the loop is
\* idle: the handler waits on a task that is fetching and the timer of wait_for
\* has not expired.
Tick ==
    /\ pc = "await"
    /\ now < MaxTime
    /\ \/ blocking # 0
       \/ /\ AllStarted
          /\ stanza_num \in Stanzas
          /\ tasks[stanza_num] = "fetching"
          /\ now < wait_started + TimeoutT
    /\ now' = now + 1
    /\ UNCHANGED <<total_stanzas, pc, stanza_num, tasks, image_data, errors,
                   cover_image, cover_called, sb_exists, sb_status,
                   sb_illustrations, sb_cover, rec_failed, status_writes, response,
                   callers, call, completion_order, provider, blocking,
                   wait_started, provider_calls, provider_refs, sb_error, sb_photos>>

\* An entry of the error list: its stanza number and which handler wrote it.
ErrorEntry(k, kind) == [stanza |-> k, kind |-> kind]

\* Faulty variant of AppendIllustration: the new record is put first.
AppendIllustration_Prepend(illustrations, k) ==
    <<IllustrationRecord(k)>> \o illustrations

\* The array add_illustration writes back (firebase_service.py:450-464).
AppendIllustration(illustrations, k) == Append(illustrations, IllustrationRecord(k))

\* add_illustration (firebase_service.py:416-470) as called by the single run:
\* upload, read the document, append, write the whole array back.  A raise of the
\* upload or of the update leaves the array as it was.
AddIllustration(k, outcome) ==
    /\ sb_illustrations' = IF outcome = "ok"
                              THEN AppendIllustration(sb_illustrations, k)
                              ELSE sb_illustrations
    /\ rec_failed' = IF outcome = "ok" THEN rec_failed
                                         ELSE rec_failed \cup {"add_illustration"}

AddOutcomes == {"ok", "upload_raises", "update_raises"}

\* main.py:412: the stanza enters the response map.
StoreImage(k) ==
    /\ image_data' = image_data \cup {k}
    /\ UNCHANGED errors

\* main.py:419-421: except Exception folds the failure into the error list.
OnException(k) ==
    /\ errors' = Append(errors, ErrorEntry(k, "error"))
    /\ UNCHANGED image_data

\* Faulty variant of OnTimeout: the timeout is logged but not added to errors.
OnTimeout_Silent(k) ==
    UNCHANGED <<errors, image_data, sb_illustrations, rec_failed>>

\* Faulty variant of OnTimeout: the timed-out stanza is persisted all the same.
OnTimeout_Records(k) ==
    /\ errors' = Append(errors, ErrorEntry(k, "timeout"))
    /\ sb_illustrations' = AppendIllustration(sb_illustrations, k)
    /\ UNCHANGED <<image_data, rec_failed>>

\* main.py:416-418: except asyncio.TimeoutError.
OnTimeout(k) ==
    /\ errors' = Append(errors, ErrorEntry(k, "timeout"))
    /\ UNCHANGED <<image_data, sb_illustrations, rec_failed>>

\* Faulty variant of LastStanza: the loop is left after its first result.
LastStanza_First(k) == TRUE

\* The (stanza_num, task) pairs are exhausted after pair k (main.py:398).
LastStanza(k) == k + 1 > total_stanzas

\* The for statement moves to the next (stanza_num, task) pair and its wait_for,
\* or leaves the loop.
LoopNext(k) ==
    /\ stanza_num' = k + 1
    /\ wait_started' = now
    /\ pc' = IF LastStanza(k) THEN "check" ELSE "await"

\* One iteration of the result loop whose wait_for returned or raised the task's
\* own outcome (main.py:398-421).  The branch for a falsy image (main.py:414-415)
\* is unreachable: the task raises instead of returning nothing (main.py:274-275).
ProcessResult ==
    /\ pc = "await"
    /\ blocking = 0
    /\ AllStarted
    /\ stanza_num \in Stanzas
    /\ tasks[stanza_num] \in {"image", "raised_provider", "raised_template"}
    /\ IF tasks[stanza_num] = "image"
       THEN \E outcome \in AddOutcomes :
               /\ AddIllustration(stanza_num, outcome)
               /\ IF outcome = "ok" THEN StoreImage(stanza_num)
                                    ELSE OnException(stanza_num)
       ELSE /\ OnException(stanza_num)
            /\ UNCHANGED <<sb_illustrations, rec_failed>>
    /\ LoopNext(stanza_num)
    /\ UNCHANGED <<total_stanzas, tasks, cover_image, cover_called, sb_exists,
                   sb_status, sb_cover, status_writes, response, callers, call,
                   completion_order, provider, blocking, now, provider_calls,
                   provider_refs, sb_error, sb_photos>>

\* Faulty variant of CancelOnTimeout: the timeout cancels every unfinished task.
CancelOnTimeout_All(k) ==
    [j \in Stanzas |-> IF tasks[j] \in InFlight THEN "cancelled" ELSE tasks[j]]

\* Faulty variant of CancelOnTimeout: the timed-out task is started again.
CancelOnTimeout_Retry(k) == [tasks EXCEPT ![k] = "created"]

\* wait_for cancels the task it waited on, and no other (main.py:401).
CancelOnTimeout(k) == [tasks EXCEPT ![k] = "cancelled"]

\* wait_for's timer expires while the event loop is free and the awaited task is
\* suspended: wait_for cancels the task and raises TimeoutError (main.py:401,
\* 416-418).  While a backend call holds the loop the timer cannot fire, and a
\* task that has ended by then hands its result to the handler.
Timeout ==
    /\ pc = "await"
    /\ blocking = 0
    /\ AllStarted
    /\ stanza_num \in Stanzas
    /\ tasks[stanza_num] = "fetching"
    /\ now >= wait_started + TimeoutT
    /\ tasks' = CancelOnTimeout(stanza_num)
    /\ OnTimeout(stanza_num)
    /\ LoopNext(stanza_num)
    /\ UNCHANGED <<total_stanzas, cover_image, cover_called, sb_exists, sb_status,
                   sb_cover, status_writes, response, callers, call,
                   completion_order, provider, blocking, now, provider_calls,
                   provider_refs, sb_error, sb_photos>>

\* Faulty variant of UpdateStorybookStatus: only 'completed' is ever written.
UpdateStorybookStatus_Drop(status, error, ok) ==
    /\ sb_status' = IF ok /\ status = "completed" THEN status ELSE sb_status
    /\ sb_error' = IF ok /\ error # "" THEN error ELSE sb_error
    /\ status_writes' = IF ok /\ status = "completed" THEN status_writes + 1
                                                       ELSE status_writes
    /\ rec_failed' = IF ok THEN rec_failed
                           ELSE rec_failed \cup {"update_storybook_status"}

\* update_storybook_status (firebase_service.py:302-324); ok = the update did not
\* raise.  The 'error' field is written only for a non-empty error argument.
UpdateStorybookStatus(status, error, ok) ==
    /\ sb_status' = IF ok THEN status ELSE sb_status
    /\ sb_error' = IF ok /\ error # "" THEN error ELSE sb_error
    /\ status_writes' = IF ok THEN status_writes + 1 ELSE status_writes
    /\ rec_failed' = IF ok THEN rec_failed
                           ELSE rec_failed \cup {"update_storybook_status"}

\* Either except clause returns the error response (main.py:484-497).
ReturnError ==
    /\ response' = ErrorResponse
    /\ pc' = "done"

\* Faulty variant of RaiseNoIllustrations: the raise is missing and the handler
\* falls through to the cover stage.
RaiseNoIllustrations_FallThrough ==
    /\ pc' = "cover"
    /\ UNCHANGED response

\* main.py:430: raise ValueError after the status was set to 'failed'.
RaiseNoIllustrations == ReturnError

\* Faulty variant of NoIllustrations: the run fails as soon as any stanza failed.
NoIllustrations_AnyError == errors # <<>>

\* Faulty variant of NoIllustrations: the stanza list is tested, not the results.
NoIllustrations_NoStanzas == total_stanzas = 0

\* Faulty variant of NoIllustrations: the run only fails when a stanza failed.
NoIllustrations_ErrorsOnly == image_data = {} /\ errors # <<>>

\* main.py:423: if not image_data.
NoIllustrations == image_data = {}

\* The error argument of both update_storybook_status calls: none is passed, and
\* the parameter defaults to None (main.py:425-428, 461-464).
NoErrorText == ""

\* main.py:423-430: no stanza made it into image_data.
CheckResults ==
    /\ pc = "check"
    /\ IF NoIllustrations
       THEN \E ok \in BOOLEAN :
               /\ UpdateStorybookStatus("failed", NoErrorText, ok)
               /\ IF ok THEN RaiseNoIllustrations ELSE ReturnError
       ELSE /\ pc' = "cover"
            /\ UNCHANGED <<sb_status, sb_error, status_writes, rec_failed, response>>
    /\ UNCHANGED <<total_stanzas, stanza_num, tasks, image_data, errors,
                   cover_image, cover_called, sb_exists, sb_illustrations,
                   sb_cover, callers, call, completion_order, loopVars, sb_photos>>

CoverOutcomes ==
    {"ok", "template_raises", "generate_raises", "upload_raises", "attach_raises"}

\* Faulty variant of AfterCover: a failed cover stage ends the run with an error.
AfterCover_Abort ==
    IF sb_cover'
    THEN /\ pc' = "finalize"
         /\ UNCHANGED response
    ELSE ReturnError

\* Where the handler continues after the cover's try statement (main.py:456-460).
AfterCover ==
    /\ pc' = "finalize"
    /\ UNCHANGED response

\* The cover stage (main.py:432-458): generate_storybook_cover (which raises when
\* the cover template fails, before the provider is called, or when the provider
\* returns nothing, main.py:296-343), upload_cover_to_storage,
\* add_cover_to_storybook, all inside one try whose except Exception only logs.
\* No task is left to run beside the provider call.
CoverStage ==
    /\ pc = "cover"
    /\ cover_called' = TRUE
    /\ \E outcome \in CoverOutcomes :
        /\ provider_calls' =
              IF outcome = "template_raises" THEN provider_calls
              ELSE [provider_calls EXCEPT ![0] = @ + 1]
        /\ provider_refs' =
              IF outcome = "template_raises" THEN provider_refs
              ELSE provider_refs \cup {RequestPhotos}
        /\ cover_image' = (outcome \notin {"template_raises", "generate_raises"})
        /\ sb_cover' = (outcome = "ok")
        /\ rec_failed' =
              CASE outcome = "upload_raises" ->
                     rec_failed \cup {"upload_cover_to_storage"}
                [] outcome = "attach_raises" ->
                     rec_failed \cup {"add_cover_to_storybook"}
                [] OTHER -> rec_failed
    /\ AfterCover
    /\ UNCHANGED <<total_stanzas, stanza_num, tasks, image_data, errors, sb_exists,
                   sb_status, sb_illustrations, status_writes, callers, call,
                   completion_order, provider, blocking, now, wait_started,
                   sb_error, sb_photos>>

\* Faulty variant of ReturnSuccess: the cover stage comes after the status write.
ReturnSuccess_ThenCover ==
    /\ response' = SuccessResponse
    /\ pc' = "cover"

\* main.py:467-482: the handler returns the success response.
ReturnSuccess ==
    /\ response' = SuccessResponse
    /\ pc' = "done"

\* main.py:460-482: mark the storybook completed and return the success response.
Finalize ==
    /\ pc = "finalize"
    /\ \E ok \in BOOLEAN :
        /\ UpdateStorybookStatus("completed", NoErrorText, ok)
        /\ IF ok THEN ReturnSuccess ELSE ReturnError
    /\ UNCHANGED <<total_stanzas, stanza_num, tasks, image_data, errors,
                   cover_image, cover_called, sb_exists, sb_illustrations,
                   sb_cover, callers, call, completion_order, loopVars, sb_photos>>

Next ==
    \/ CreateStorybook
    \/ Dispatch
    \/ \E k \in Stanzas : TaskStart(k)
    \/ \E k \in Stanzas : TaskFetched(k)
    \/ \E k \in Stanzas : TaskReturnsImage(k)
    \/ \E k \in Stanzas : TaskRaises(k)
    \/ Tick
    \/ ProcessResult
    \/ Timeout
    \/ CheckResults
    \/ CoverStage
    \/ Finalize

Spec == Init /\ [][Next]_vars

(***************************************************************************)
(* add_illustration under concurrent callers.  Its Firestore read           *)
(* (firebase_service.py:445) and write (firebase_service.py:462) are two    *)
(* separate requests to the store, with no transaction around them, so the  *)
(* calls of two writers of one storybook (two server processes, or a        *)
(* parallelised result loop) interleave between them.                       *)
(***************************************************************************)
CallerIds == 1..MaxCallers

InitAdd ==
    /\ total_stanzas = MaxStanzas
    /\ pc = "external"
    /\ stanza_num = 0
    /\ tasks = [k \in 1..MaxStanzas |-> "image"]
    /\ image_data = {}
    /\ errors = <<>>
    /\ cover_image = FALSE
    /\ cover_called = FALSE
    /\ sb_exists = TRUE
    /\ sb_status = "pending"
    /\ sb_illustrations = <<>>
    /\ sb_cover = FALSE
    /\ rec_failed = {}
    /\ status_writes = 0
    /\ response = NoResponse
    /\ call = NoCall
    /\ completion_order = <<>>
    /\ provider = "OpenAIGenerator"
    /\ blocking = 0
    /\ now = 0
    /\ wait_started = 0
    /\ provider_calls = [k \in 0..MaxStanzas |-> 1]
    /\ provider_refs = {RequestPhotos}
    /\ sb_error = "unset"
    /\ sb_photos = "stored"
    /\ \E f \in [CallerIds -> 1..MaxStanzas] :
          /\ \A c, d \in CallerIds : c # d => f[c] # f[d]
          /\ callers = [c \in CallerIds |->
                          [pc |-> "upload", stanza_number |-> f[c],
                           illustrations |-> <<>>]]

\* upload_image_to_storage (firebase_service.py:434-440); a raise leaves through
\* the except clause (firebase_service.py:468-470).
AddUpload(c) ==
    /\ callers[c].pc = "upload"
    /\ \E ok \in BOOLEAN :
          callers' = [callers EXCEPT ![c].pc = IF ok THEN "read" ELSE "raised"]
    /\ UNCHANGED <<schedVars, call, sb_exists, sb_status, sb_illustrations, sb_cover>>

\* storybook_ref.get() and current_data.get('illustrations', [])
\* (firebase_service.py:445-451): the caller's own copy of the array.
AddRead(c) ==
    /\ callers[c].pc = "read"
    /\ sb_exists
    /\ callers' = [callers EXCEPT ![c].pc = "write",
                                  ![c].illustrations = sb_illustrations]
    /\ UNCHANGED <<schedVars, call, sb_exists, sb_status, sb_illustrations, sb_cover>>

\* illustrations.append(...) and storybook_ref.update({'illustrations': ...})
\* (firebase_service.py:454-464): the whole array is overwritten by the copy.
AddWrite(c) ==
    /\ callers[c].pc = "write"
    /\ \E ok \in BOOLEAN :
          IF ok
          THEN /\ sb_illustrations' =
                     AppendIllustration(callers[c].illustrations,
                                        callers[c].stanza_number)
               /\ callers' = [callers EXCEPT ![c].pc = "returned"]
          ELSE /\ callers' = [callers EXCEPT ![c].pc = "raised"]
               /\ UNCHANGED sb_illustrations
    /\ UNCHANGED <<schedVars, call, sb_exists, sb_status, sb_cover>>

NextAdd ==
    \/ \E c \in CallerIds : AddUpload(c)
    \/ \E c \in CallerIds : AddRead(c)
    \/ \E c \in CallerIds : AddWrite(c)

SpecAdd == InitAdd /\ [][NextAdd]_vars

(***************************************************************************)
(* The pure helpers of src/main.py and the provider factory.  A Python str  *)
(* is a sequence of one-character strings.  Under SpecFn one helper is      *)
(* called once, on arguments drawn from bounded sets, and call records the  *)
(* arguments and the result.                                                *)
(***************************************************************************)
LowerLetters == <<"a", "b", "c", "d", "e", "f", "g", "h", "i", "j", "k", "l", "m",
                  "n", "o", "p", "q", "r", "s", "t", "u", "v", "w", "x", "y", "z">>
UpperLetters == <<"A", "B", "C", "D", "E", "F", "G", "H", "I", "J", "K", "L", "M",
                  "N", "O", "P", "Q", "R", "S", "T", "U", "V", "W", "X", "Y", "Z">>

\* str.lower() on one character.
LowerChar(c) ==
    IF \E i \in 1..Len(UpperLetters) : UpperLetters[i] = c
    THEN LowerLetters[CHOOSE i \in 1..Len(UpperLetters) : UpperLetters[i] = c]
    ELSE c

\* str.upper() on one character.
UpperChar(c) ==
    IF \E i \in 1..Len(LowerLetters) : LowerLetters[i] = c
    THEN UpperLetters[CHOOSE i \in 1..Len(LowerLetters) : LowerLetters[i] = c]
    ELSE c

\* Faulty variant of Lower: the text is compared as it is.
Lower_AsIs(s) == s

\* str.lower().
Lower(s) == [i \in 1..Len(s) |-> LowerChar(s[i])]

\* Python's  needle in hay  on strings.
Contains(hay, needle) ==
    \E i \in 0..(Len(hay) - Len(needle)) : SubSeq(hay, i + 1, i + Len(needle)) = needle

\* Faulty variant of Whitespace: only newlines are stripped.
Whitespace_NewlinesOnly == {"\n"}

\* The characters str.strip() removes, among those of the modelled texts.
Whitespace == {" ", "\n"}

RECURSIVE LStrip(_)
LStrip(s) == IF s # <<>> /\ Head(s) \in Whitespace THEN LStrip(Tail(s)) ELSE s

RECURSIVE RStrip(_)
RStrip(s) ==
    IF s # <<>> /\ s[Len(s)] \in Whitespace
    THEN RStrip(SubSeq(s, 1, Len(s) - 1))
    ELSE s

\* str.strip().
Strip(s) == RStrip(LStrip(s))

\* str.split(sep): the pieces between the non-overlapping occurrences of sep,
\* found from the left.
RECURSIVE Split(_, _)
Split(s, sep) ==
    LET hits == {i \in 1..(Len(s) - Len(sep) + 1) :
                    SubSeq(s, i, i + Len(sep) - 1) = sep}
    IN  IF hits = {}
        THEN <<s>>
        ELSE LET i == CHOOSE h \in hits : \A j \in hits : h <= j
             IN  <<SubSeq(s, 1, i - 1)>> \o Split(SubSeq(s, i + Len(sep), Len(s)), sep)

\* Faulty variant of StanzaSeparator: every line break separates stanzas.
StanzaSeparator_Newline == <<"\n">>

\* The separator of poem_text.split('\n\n') (main.py:143).
StanzaSeparator == <<"\n", "\n">>

\* split_poem_into_stanzas (main.py:133-144).
split_poem_into_stanzas(poem_text) ==
    LET parts == Split(poem_text, StanzaSeparator)
        kept  == SelectSeq(parts, LAMBDA stanza : Strip(stanza) # <<>>)
    IN  [i \in 1..Len(kept) |-> Strip(kept[i])]

\* get_names_in_stanza (main.py:146-157).
get_names_in_stanza(stanza, names) ==
    LET stanza_lower == Lower(stanza)
    IN  {names[i] : i \in {j \in 1..Len(names) : Contains(stanza_lower, Lower(names[j]))}}

\* Faulty variant of get_image_generator: the alias is not normalised.
get_image_generator_CaseSensitive(model_alias) ==
    IF model_alias = <<"n","a","n","o","-","b","a","n","a","n","a">>
    THEN "GeminiGenerator"
    ELSE "OpenAIGenerator"

\* get_image_generator (factory.py:9-26): the class that is instantiated.
get_image_generator(model_alias) ==
    LET alias == Lower(model_alias)
    IN  IF alias = <<"n","a","n","o","-","b","a","n","a","n","a">>
        THEN "GeminiGenerator"
        ELSE IF alias = <<"g","p","t","-","i","m","a","g","e">>
             THEN "OpenAIGenerator"
             ELSE "OpenAIGenerator"

\* All texts of at most n characters over the alphabet.
TextsUpTo(alphabet, n) == UNION {[1..m -> alphabet] : m \in 0..n}

\* The poems handed to split_poem_into_stanzas.
Poems == TextsUpTo({"a", "b", " ", "\n"}, MaxPoemLen)

\* The stanza texts and names handed to get_names_in_stanza.
StanzaTexts == TextsUpTo({"a", "A", "b", " "}, MaxStanzaLen)
NamePool == {<<"A">>, <<"b">>, <<"a", "B">>, <<"A", " ", "B">>}
NameLists == UNION {[1..m -> NamePool] : m \in 0..MaxNames}

\* Every spelling of a text in upper and lower case letters.
CaseVariants(s) ==
    {[i \in 1..Len(s) |-> IF up[i] THEN UpperChar(s[i]) ELSE s[i]] :
        up \in [1..Len(s) -> BOOLEAN]}

\* The aliases handed to get_image_generator: the two known ones in every
\* letter case, the default of the request model, and unknown ones.
Aliases ==
    CaseVariants(<<"n","a","n","o","-","b","a","n","a","n","a">>)
    \cup CaseVariants(<<"g","p","t","-","i","m","a","g","e">>)
    \cup {<<>>, <<"d","a","l","l","-","e">>, <<"n","a","n","o">>,
          <<"n","a","n","o"," ","b","a","n","a","n","a">>,
          <<"g","p","t","-","i","m","a","g","e"," ">>,
          <<"N","A","N","O","_","B","A","N","A","N","A">>}

InitFn ==
    /\ total_stanzas = 0
    /\ pc = "external"
    /\ stanza_num = 0
    /\ tasks = <<>>
    /\ image_data = {}
    /\ errors = <<>>
    /\ cover_image = FALSE
    /\ cover_called = FALSE
    /\ sb_exists = FALSE
    /\ sb_status = "absent"
    /\ sb_illustrations = <<>>
    /\ sb_cover = FALSE
    /\ rec_failed = {}
    /\ status_writes = 0
    /\ response = NoResponse
    /\ callers = <<>>
    /\ call = NoCall
    /\ completion_order = <<>>
    /\ provider = "OpenAIGenerator"
    /\ blocking = 0
    /\ now = 0
    /\ wait_started = 0
    /\ provider_calls = <<>>
    /\ provider_refs = {}
    /\ sb_error = "unset"
    /\ sb_photos = "absent"

notCall == <<schedVars, sb_exists, sb_status, sb_illustrations, sb_cover, callers>>

CallSplitPoem ==
    /\ call = NoCall
    /\ \E poem_text \in Poems :
          call' = [fn |-> "split_poem_into_stanzas", poem_text |-> poem_text,
                   result |-> split_poem_into_stanzas(poem_text)]
    /\ UNCHANGED notCall

CallGetNames ==
    /\ call = NoCall
    /\ \E stanza \in StanzaTexts, names \in NameLists :
          call' = [fn |-> "get_names_in_stanza", stanza |-> stanza, names |-> names,
                   result |-> get_names_in_stanza(stanza, names)]
    /\ UNCHANGED notCall

CallGetImageGenerator ==
    /\ call = NoCall
    /\ \E model_alias \in Aliases :
          call' = [fn |-> "get_image_generator", model_alias |-> model_alias,
                   result |-> get_image_generator(model_alias)]
    /\ UNCHANGED notCall

\* ---- get_current_user (main.py:45-76) ----

\* The status codes of the two HTTPException raised by get_current_user.
BadRequest == 400
Unauthorized == 401

\* Values of the user-email header.
Emails == {"", "anonymous@example.com", "amy@example.com", "bo@example.com"}

\* The body of the try block (main.py:54-72): the validation raises
\* HTTPException(400); otherwise create_user (firebase_service.py:149-175)
\* creates or updates the user document and returns the uid, or raises.
\* user_written tells whether a user document was created or updated.
AuthBody(user_email, create_ok) ==
    IF user_email = "" \/ user_email = "anonymous@example.com"
        THEN [raised |-> TRUE, status_code |-> BadRequest,
              detail |-> "Valid user email is required", user_written |-> FALSE]
    ELSE IF create_ok
        THEN [raised |-> FALSE, user_id |-> user_email, user_written |-> TRUE]
    ELSE [raised |-> TRUE, detail |-> "create_user", user_written |-> FALSE]

\* The except clause (main.py:74-76) catches every Exception raised in the try
\* block, HTTPException included, and raises HTTPException(401).
get_current_user(user_email, create_ok) ==
    LET r == AuthBody(user_email, create_ok)
    IN  IF r.raised
            THEN [raised |-> TRUE, status_code |-> Unauthorized,
                  detail |-> "Authentication failed",
                  user_written |-> r.user_written]
            ELSE r

CallGetCurrentUser ==
    /\ call = NoCall
    /\ \E user_email \in Emails, create_ok \in BOOLEAN :
          call' = [fn |-> "get_current_user", user_email |-> user_email,
                   create_ok |-> create_ok,
                   result |-> get_current_user(user_email, create_ok)]
    /\ UNCHANGED notCall

\* ---- get_storybook_details (firebase_service.py:498-561) ----

\* Storage paths kept in a storybook document: none, a blob path, or a legacy
\* public URL.
BlobPaths == {"", "blob", "http"}

\* Python's None.
None == "None"

\* Stored storybook documents: a missing document, or one with its owner, its
\* cover path, its illustrations and the baby photo of its request.
StoredStorybooks ==
    {[exists |-> FALSE]} \cup
    [exists : {TRUE}, userId : {"amy@example.com", "bo@example.com"},
     coverUrl : BlobPaths, illustrations : {<<>>} \cup [1..1 -> BlobPaths],
     photo : BlobPaths]

\* generate_signed_url (firebase_service.py:64-91): None for an empty path or
\* when signing fails, the path itself for a public URL.
generate_signed_url(blob_path, sign_ok) ==
    IF blob_path = "" THEN None
    ELSE IF blob_path = "http" THEN blob_path
    ELSE IF sign_ok THEN "signed" ELSE None

\* A field is replaced only when it is truthy (firebase_service.py:531, 537, 543).
SignedIfSet(blob_path, sign_ok) ==
    IF blob_path = "" THEN blob_path ELSE generate_signed_url(blob_path, sign_ok)

\* Faulty variant of OwnedBy: every caller passes the ownership check.
OwnedBy_Anyone(data, user_id) == TRUE

\* The ownership check (firebase_service.py:526-528).
OwnedBy(data, user_id) == data.userId = user_id

\* get_storybook raises for a missing document (firebase_service.py:504-505);
\* get_storybook_details raises for another user's storybook before it signs
\* anything, and re-raises every exception (firebase_service.py:559-561).
get_storybook_details(doc, user_id, sign_ok) ==
    IF ~doc.exists
        THEN [raised |-> TRUE, error |-> "Storybook not found"]
    ELSE IF ~OwnedBy(doc, user_id)
        THEN [raised |-> TRUE, error |-> "Unauthorized access to storybook"]
    ELSE [raised |-> FALSE,
          data |-> [userId |-> doc.userId,
                    coverUrl |-> SignedIfSet(doc.coverUrl, sign_ok),
                    illustrations |->
                        [i \in DOMAIN doc.illustrations |->
                            SignedIfSet(doc.illustrations[i], sign_ok)],
                    photo |-> SignedIfSet(doc.photo, sign_ok)]]

CallGetStorybookDetails ==
    /\ call = NoCall
    /\ \E doc \in StoredStorybooks, user_id \in {"amy@example.com", "bo@example.com"},
          sign_ok \in BOOLEAN :
          call' = [fn |-> "get_storybook_details", storybook |-> doc,
                   user_id |-> user_id, sign_ok |-> sign_ok,
                   result |-> get_storybook_details(doc, user_id, sign_ok)]
    /\ UNCHANGED notCall

NextFn ==
    \/ CallSplitPoem
    \/ CallGetNames
    \/ CallGetImageGenerator
    \/ CallGetCurrentUser
    \/ CallGetStorybookDetails

SpecFn == InitFn /\ [][NextFn]_vars

(***************************************************************************)
(* The reference images and requirement sentences that                      *)
(* generate_illustration_for_stanza builds for one stanza (main.py:183-244). *)
(* A requirement sentence is the sequence of its literal pieces and of the  *)
(* characters of the names in it.  list(set) (main.py:226, 233) yields the  *)
(* names in the set's iteration order, which follows the string hashes of   *)
(* the process (randomised per process): each evaluation draws one order.   *)
(***************************************************************************)
Amy == <<"A", "m", "y">>
Bo  == <<"B", "o">>
Cy  == <<"C", "y">>

\* A person of the request (schemas/models.py:6-9); photo "" is no photo.
Person(name, photo) == [name |-> name, photo |-> photo]

\* request.parents: parent1 and parent2 are optional (schemas/models.py:20-23).
ParentChoices ==
    LET one(name, slot) == {<<>>} \cup {<<Person(name, ph)>> : ph \in {"", slot}}
    IN  {p1 \o p2 : p1 \in one(Amy, "parent1.jpg"), p2 \in one(Bo, "parent2.jpg")}

FamilySlots == <<"family_member_1.jpg", "family_member_2.jpg",
                 "family_member_3.jpg", "family_member_4.jpg">>

\* request.family_members (schemas/models.py:34).
FamilyChoices ==
    UNION {{[i \in 1..m |-> Person(nm[i], IF ph[i] THEN FamilySlots[i] ELSE "")] :
               nm \in [1..m -> {Amy, Bo, Cy}], ph \in [1..m -> BOOLEAN]} :
           m \in 0..MaxFamily}

\* The requests: the baby photo, the given parents and the family members.
Requests ==
    [baby_photo : {"", "baby.jpg"}, parents : ParentChoices, family_members : FamilyChoices]

\* The stanza texts of SpecRefs: '', 'amy', 'bo and cy', 'Amy, Bo, Cy'.
RefStanzas ==
    {<<>>,
     <<"a", "m", "y">>,
     <<"b", "o", " ", "a", "n", "d", " ", "c", "y">>,
     <<"A", "m", "y", ",", " ", "B", "o", ",", " ", "C", "y">>}

\* main.py:192-199, 204-208: the names of the persons that have a name.
NamesOf(persons) ==
    LET named == SelectSeq(persons, LAMBDA p : p.name # <<>>)
    IN  [i \in 1..Len(named) |-> named[i].name]

\* main.py:194-199, 207-208: the photos of the named persons that have a photo.
PhotosOf(persons) ==
    LET pictured == SelectSeq(persons, LAMBDA p : p.name # <<>> /\ p.photo # "")
    IN  [i \in 1..Len(pictured) |-> pictured[i].photo]

\* Python's zip: pairs up to the shorter list.
Zip(xs, ys) ==
    [i \in 1..(IF Len(xs) <= Len(ys) THEN Len(xs) ELSE Len(ys)) |-> <<xs[i], ys[i]>>]

\* main.py:215-222: the photos zipped to a name of the stanza.
RelevantPhotos(names, photos, stanza_names) ==
    LET pairs == SelectSeq(Zip(names, photos), LAMBDA np : np[1] \in stanza_names)
    IN  [i \in 1..Len(pairs) |-> pairs[i][2]]

\* ', '.join(names)
RECURSIVE JoinNames(_)
JoinNames(names) ==
    IF names = <<>> THEN <<>>
    ELSE IF Len(names) = 1 THEN names[1]
    ELSE names[1] \o <<", ">> \o JoinNames(Tail(names))

\* main.py:190, 202, 225-237: the requirement sentence for the names list.
Requirement(names_list, none_text) ==
    IF names_list = <<>> THEN <<none_text>>
    ELSE IF Len(names_list) = 1
    THEN <<"Include ">> \o names_list[1]
         \o <<" and use their photo as reference for accurate appearance.">>
    ELSE <<"Include ">> \o JoinNames(SubSeq(names_list, 1, Len(names_list) - 1))
         \o <<" and ">> \o names_list[Len(names_list)]
         \o <<", using their photos as reference for accurate appearance.">>

\* The orders in which a set can be iterated.
Orderings(S) ==
    {o \in [1..Cardinality(S) -> S] : \A i, j \in 1..Cardinality(S) : i # j => o[i] # o[j]}

NoParentsText == "No parents included in the illustration."
NoFamilyText == "No family members included in the illustration."

\* main.py:178-244 for one stanza, with the drawn iteration orders of the two sets.
BuildReferences(request, stanza, parent_names_list, family_names_list) ==
    LET parent_names == NamesOf(request.parents)
        parent_photos == PhotosOf(request.parents)
        family_member_names == NamesOf(request.family_members)
        family_member_photos == PhotosOf(request.family_members)
        stanza_parent_names == get_names_in_stanza(stanza, parent_names)
        stanza_family_names == get_names_in_stanza(stanza, family_member_names)
    IN  [reference_images |->
            (IF request.baby_photo # "" THEN <<request.baby_photo>> ELSE <<>>)
            \o RelevantPhotos(parent_names, parent_photos, stanza_parent_names)
            \o RelevantPhotos(family_member_names, family_member_photos,
                              stanza_family_names),
         parent_requirements |-> Requirement(parent_names_list, NoParentsText),
         family_member_requirements |-> Requirement(family_names_list, NoFamilyText)]

\* One evaluation for a request and a stanza.
Evaluate(request, stanza, evaluations) ==
    \E parent_names_list \in
            Orderings(get_names_in_stanza(stanza, NamesOf(request.parents))),
       family_names_list \in
            Orderings(get_names_in_stanza(stanza, NamesOf(request.family_members))) :
        call' = [fn |-> "generate_illustration_for_stanza",
                 request |-> request, stanza |-> stanza,
                 evaluations |->
                     Append(evaluations,
                            BuildReferences(request, stanza, parent_names_list,
                                            family_names_list))]

\* The first evaluation.
CallBuildReferences ==
    /\ call = NoCall
    /\ \E request \in Requests, stanza \in RefStanzas : Evaluate(request, stanza, <<>>)
    /\ UNCHANGED notCall

\* A second evaluation for the same request and stanza.
CallBuildReferencesAgain ==
    /\ call.fn = "generate_illustration_for_stanza"
    /\ Len(call.evaluations) = 1
    /\ Evaluate(call.request, call.stanza, call.evaluations)
    /\ UNCHANGED notCall

NextRefs ==
    \/ CallBuildReferences
    \/ CallBuildReferencesAgain

SpecRefs == InitFn /\ [][NextRefs]_vars

(***************************************************************************)
(* generate_illustration of the two providers, as a function of what the    *)
(* references and the backend do.  A reference is "fetched" (it can be      *)
(* fetched and decoded), "unfetchable" (the HTTP request fails or does not  *)
(* answer 200) or "undecodable" (a data URI that does not decode).  The     *)
(* backend raises or answers with a list of candidates: "valid" carries     *)
(* image bytes that decode, "invalid" carries bytes that do not, "no_image" *)
(* carries none.                                                            *)
(***************************************************************************)
ReferenceKinds == {"fetched", "unfetchable", "undecodable"}

CandidateKinds == {"valid", "invalid", "no_image"}

\* The reference lists and the backend's answers of SpecProvider.
ReferenceLists == UNION {[1..n -> ReferenceKinds] : n \in 0..MaxRefs}

BackendAnswers ==
    {[raises |-> TRUE, candidates |-> <<>>]}
    \cup {[raises |-> FALSE, candidates |-> c] :
             c \in UNION {[1..n -> CandidateKinds] : n \in 0..MaxCandidates}}

\* _fetch_image (gemini_generator.py:36-61): the image, or None for a reference
\* that cannot be decoded or fetched; it never raises.
FetchImage(url) == IF url = "fetched" THEN "image" ELSE "None"

\* gemini_generator.py:74-81: the references whose fetch gave an image, in order.
GeminiContents(reference_images) ==
    SelectSeq(reference_images, LAMBDA url : FetchImage(url) # "None")

\* _process_image_bytes (gemini_generator.py:125-151).
ProcessImageBytes(candidate) == IF candidate = "valid" THEN "image" ELSE "None"

\* gemini_generator.py:100-119: the first candidate that carries image bytes
\* decides the result.
RECURSIVE GeminiExtract(_)
GeminiExtract(candidates) ==
    IF candidates = <<>> THEN "None"
    ELSE IF Head(candidates) # "no_image" THEN ProcessImageBytes(Head(candidates))
    ELSE GeminiExtract(Tail(candidates))

\* GeminiGenerator.generate_illustration (gemini_generator.py:63-123).
GeminiGenerate(reference_images, backend) ==
    [contents |-> GeminiContents(reference_images),
     result |-> IF backend.raises THEN "None" ELSE GeminiExtract(backend.candidates)]

\* openai_generator.py:69-77: the first output with a non-empty result is
\* returned as it is.
RECURSIVE OpenAIExtract(_)
OpenAIExtract(output) ==
    IF output = <<>> THEN "None"
    ELSE IF Head(output) # "no_image"
         THEN (IF Head(output) = "valid" THEN "image" ELSE "unchecked")
    ELSE OpenAIExtract(Tail(output))

\* OpenAIGenerator.generate_illustration (openai_generator.py:30-81): every
\* reference goes to the backend as an image_url.
OpenAIGenerate(reference_images, backend) ==
    [contents |-> reference_images,
     result |-> IF backend.raises THEN "None" ELSE OpenAIExtract(backend.candidates)]

\* One call of a provider.
CallProvider ==
    /\ call = NoCall
    /\ \E generator \in Generators, reference_images \in ReferenceLists,
          backend \in BackendAnswers :
          LET out == IF generator = "GeminiGenerator"
                     THEN GeminiGenerate(reference_images, backend)
                     ELSE OpenAIGenerate(reference_images, backend)
          IN  call' = [fn |-> "generate_illustration", generator |-> generator,
                       reference_images |-> reference_images, backend |-> backend,
                       contents |-> out.contents, result |-> out.result]
    /\ UNCHANGED notCall

NextProvider == CallProvider

SpecProvider == InitFn /\ [][NextProvider]_vars

(***************************************************************************)
(* load_style_guidelines (main.py:78-111).  The styles file is a sequence   *)
(* of sections (the pieces between empty lines); a section is its first     *)
(* line, as a sequence of word pieces, and the number of lines after it.    *)
(* call.depth is the number of nested invocations, call.frame_code the      *)
(* style code of the innermost one.                                         *)
(***************************************************************************)
DefaultStyle == <<"textured", "-watercolor">>

\* The first lines of sections, and the style codes asked for.
SectionHeads == {DefaultStyle, <<"abstract">>, <<"abstract", "-soft">>}

StyleCodes == {DefaultStyle, <<"abstract">>, <<"muted">>}

Sections == [head : SectionHeads, lines : 0..1]

StyleFiles == UNION {[1..n -> Sections] : n \in 0..MaxSections}

\* str.startswith
StartsWith(text, prefix) ==
    /\ Len(prefix) <= Len(text)
    /\ SubSeq(text, 1, Len(prefix)) = prefix

\* main.py:95-99: the sections the loop returns from, by position.
Matching(content, style_code) ==
    {i \in 1..Len(content) :
        StartsWith(content[i].head, style_code) /\ content[i].lines >= 1}

Min(S) == CHOOSE x \in S : \A y \in S : x <= y

\* The hard-coded text of the except clause (main.py:108-111).
BasicFallback == [kind |-> "basic_fallback", section |-> 0]

Pending == [kind |-> "pending", section |-> 0]

\* The call from generate_illustration_for_stanza or generate_storybook_cover
\* (main.py:247, 304).
CallLoadStyle ==
    /\ call = NoCall
    /\ \E style_code \in StyleCodes, content \in StyleFiles, readable \in BOOLEAN :
          call' = [fn |-> "load_style_guidelines", style_code |-> style_code,
                   content |-> content, readable |-> readable,
                   frame_code |-> style_code, depth |-> 1, result |-> Pending]
    /\ UNCHANGED notCall

\* The body of the innermost invocation: read the file (open raises when it is
\* not readable), return the guidelines of the first matching section, or call
\* load_style_guidelines("textured-watercolor") (main.py:106).  At the
\* interpreter's nesting limit that call raises RecursionError, which the except
\* clause turns into the hard-coded text; every outer invocation returns what
\* its inner one returned.
LoadStyleStep ==
    /\ call.fn = "load_style_guidelines"
    /\ call.result = Pending
    /\ LET found == Matching(call.content, call.frame_code)
       IN  IF ~call.readable
           THEN call' = [call EXCEPT !.result = BasicFallback]
           ELSE IF found # {}
           THEN call' = [call EXCEPT
                            !.result = [kind |-> "guidelines", section |-> Min(found)]]
           ELSE IF call.depth >= RecursionLimit
           THEN call' = [call EXCEPT !.result = BasicFallback]
           ELSE call' = [call EXCEPT !.frame_code = DefaultStyle, !.depth = @ + 1]
    /\ UNCHANGED notCall

NextStyle ==
    \/ CallLoadStyle
    \/ LoadStyleStep

SpecStyle == InitFn /\ [][NextStyle]_vars

(***************************************************************************)
(* Properties.                                                             *)
(***************************************************************************)
Terminal == {"completed", "failed"}

\* The stanza's task returned an image.
Produced(k) == tasks[k] = "image"

\* The number of error-list entries naming stanza k.
ErrorCount(k) == Cardinality({i \in 1..Len(errors) : errors[i].stanza = k})

\* The stanza numbers of the storybook's illustration records.
RecordedStanzas == {sb_illustrations[i].stanzaNumber : i \in 1..Len(sb_illustrations)}

\* The result loop has run to its end.
LoopEnded == pc \in {"check", "cover", "finalize"} \/ (pc = "done" /\ sb_exists)

\* C1: the storybook is marked 'failed' only if no stanza was produced and
\* recorded (none produced at all when add_illustration never raised), and a
\* terminal status with at least one recorded stanza is 'completed'.
C1_FailedOnlyWithoutImages ==
    /\ sb_status = "failed" =>
          /\ image_data = {}
          /\ "add_illustration" \notin rec_failed =>
                 \A k \in Stanzas : ~Produced(k)
    /\ (image_data # {} /\ sb_status \in Terminal) => sb_status = "completed"

\* A finished run of three stanzas, one raised, one timed out, one recorded,
\* marked 'completed'.
C1_Witness ==
    /\ pc = "done"
    /\ sb_status = "completed"
    /\ \E k \in Stanzas : tasks[k] = "cancelled"
    /\ \E k \in Stanzas : tasks[k] = "raised_provider"
    /\ \E k \in Stanzas : Produced(k) /\ k \in image_data

\* C2: the returned status is 'success' or 'error'; it is 'error' only when no
\* stanza produced an image or a Recorder operation the run depends on
\* (create_storybook, add_illustration, update_storybook_status) raised; it is
\* 'success' whenever a stanza is in the result map and the status update did
\* not raise.
C2_ResponseStatus ==
    pc = "done" =>
        /\ response.status \in {"success", "error"}
        /\ response.status = "error" =>
              \/ \A k \in Stanzas : ~Produced(k)
              \/ rec_failed \cap {"create_storybook", "add_illustration",
                                   "update_storybook_status"} # {}
        /\ (image_data # {} /\ "update_storybook_status" \notin rec_failed) =>
              /\ response.status = "success"
              /\ response.image_data = image_data
        /\ response.status = "success" => image_data # {}

\* A run that returned 'success' although some stanza failed.
C2_Witness ==
    /\ pc = "done"
    /\ response.status = "success"
    /\ errors # <<>>
    /\ rec_failed = {}

\* C3: every stanza the loop has passed is accounted for exactly once, as a key
\* of image_data or as exactly one error entry, whatever its outcome; stanzas not
\* yet processed are in neither; and the loop only ends after stanza N, with
\* successes + error entries = N.
C3_NoEarlyAbort ==
    /\ \A k \in Stanzas :
          IF stanza_num > k
          THEN \/ k \in image_data /\ ErrorCount(k) = 0
               \/ k \notin image_data /\ ErrorCount(k) = 1
          ELSE k \notin image_data /\ ErrorCount(k) = 0
    /\ LoopEnded =>
          /\ stanza_num = total_stanzas + 1
          /\ Cardinality(image_data) + Len(errors) = total_stanzas
          /\ \A k \in Stanzas : tasks[k] \notin InFlight

\* Stanza 1 failed to compile its prompt, stanza 2 timed out, and stanza 3 was
\* still awaited and stored.
C3_Witness ==
    /\ LoopEnded
    /\ total_stanzas = 3
    /\ tasks[1] = "raised_template"
    /\ tasks[2] = "cancelled"
    /\ 3 \in image_data

\* Every stanza task raised or timed out (and there is at least one).
AllStanzasFailed ==
    /\ total_stanzas >= 1
    /\ \A k \in Stanzas :
          tasks[k] \in {"raised_provider", "raised_template", "cancelled"}

\* C4: when every stanza task failed or timed out, the cover is never invoked,
\* the storybook holds no illustration record, and the run returns 'error' with
\* the storybook marked 'failed' (the mark is missing only if the status update
\* itself raised).
C4_AllFailed ==
    AllStanzasFailed =>
        /\ ~cover_called
        /\ sb_illustrations = <<>>
        /\ pc \in {"await", "check", "done"}
        /\ pc = "done" =>
              /\ response.status = "error"
              /\ "update_storybook_status" \notin rec_failed =>
                    sb_status = "failed"

\* A finished run whose stanzas all failed, one by timeout and one by raising.
C4_Witness ==
    /\ pc = "done"
    /\ AllStanzasFailed
    /\ sb_status = "failed"
    /\ \E k \in Stanzas : tasks[k] = "cancelled"
    /\ \E k \in Stanzas : tasks[k] = "raised_provider"

\* The cover stage ran and attached no cover.
CoverFailed == cover_called /\ pc \in {"finalize", "done"} /\ ~sb_cover

\* C5: after a failed cover stage the run still goes on to mark the storybook
\* completed, and returns 'success' with the storybook 'completed' (unless the
\* final status update itself raised).
C5_CoverFailureKeepsSuccess ==
    CoverFailed =>
        /\ image_data # {}
        /\ pc = "finalize" => response.status = "none" /\ sb_status = "pending"
        /\ (pc = "done" /\ "update_storybook_status" \notin rec_failed) =>
              /\ response.status = "success"
              /\ sb_status = "completed"

\* A finished run whose cover was generated but could not be uploaded.
C5_Witness ==
    /\ pc = "done"
    /\ CoverFailed
    /\ "upload_cover_to_storage" \in rec_failed
    /\ response.status = "success"
    /\ sb_status = "completed"

\* C6: the illustration records have pairwise distinct stanza numbers in 1..N,
\* each of a stanza whose task returned an image and that the loop stored; no
\* record exists for a stanza that raised or timed out.
C6_IllustrationRecords ==
    /\ \A i, j \in 1..Len(sb_illustrations) :
          i # j => sb_illustrations[i].stanzaNumber # sb_illustrations[j].stanzaNumber
    /\ RecordedStanzas \subseteq Stanzas
    /\ \A k \in RecordedStanzas : Produced(k) /\ k \in image_data
    /\ \A k \in Stanzas :
          tasks[k] \in {"raised_provider", "raised_template", "cancelled"} =>
              k \notin RecordedStanzas

\* Two stanzas are recorded while another one timed out.
C6_Witness ==
    /\ Len(sb_illustrations) = 2
    /\ \E k \in Stanzas : tasks[k] = "cancelled" /\ stanza_num > k

\* C7: the status starts 'pending' and is written at most once, to 'completed'
\* or 'failed'; once terminal it never changes again.
C7_StatusSetOnce ==
    [][ /\ sb_status \in Terminal =>
              sb_status' = sb_status /\ status_writes' = status_writes
        /\ sb_status = "pending" => sb_status' \in {"pending"} \cup Terminal
        /\ sb_status' \in Terminal => status_writes' = 1 ]_vars

\* A run that ended with the storybook marked 'failed'.
C7_Witness ==
    /\ pc = "done"
    /\ sb_status = "failed"
    /\ status_writes = 1

\* C8 as stated: no run that created a storybook returns leaving it 'pending',
\* whatever the task and Recorder outcomes.
C8_NeverLeftPending ==
    (pc = "done" /\ sb_exists) => sb_status \in Terminal

\* C8 amended: a run that created a storybook returns with it 'completed' or
\* 'failed' unless its update_storybook_status call raised; then it returns
\* 'error' and the storybook stays 'pending'.
C8_TerminalUnlessStatusWriteRaised ==
    (pc = "done" /\ sb_exists) =>
        IF "update_storybook_status" \in rec_failed
        THEN sb_status = "pending" /\ response.status = "error"
        ELSE sb_status \in Terminal

\* A run with a raising add_illustration and a failed cover that still marked
\* its storybook.
C8_Witness ==
    /\ pc = "done"
    /\ sb_exists
    /\ "add_illustration" \in rec_failed
    /\ "add_cover_to_storybook" \in rec_failed
    /\ sb_status = "completed"

\* C9: a raise of add_illustration aborts the run on the spot: the response is
\* 'error', no later stanza is processed, no cover is attempted and the
\* storybook is not marked 'completed'.
C9_RecorderFailureAborts ==
    "add_illustration" \in rec_failed =>
        /\ pc = "done"
        /\ response.status = "error"
        /\ ~cover_called
        /\ sb_status # "completed"
        /\ stanza_num <= total_stanzas

\* C10: when all concurrent add_illustration calls on one storybook returned
\* successfully, the illustrations array holds a record of each.
C10_NoLostUpdate ==
    (\A c \in DOMAIN callers : callers[c].pc = "returned") =>
        \A c \in DOMAIN callers : callers[c].stanza_number \in RecordedStanzas

\* C11: a poem of zero stanzas dispatches no task, records nothing, never reaches
\* the result loop or the cover stage, and ends with response 'error' and the
\* storybook marked 'failed' (unless the status update itself raised).
C11_NoStanzas ==
    total_stanzas = 0 =>
        /\ tasks = <<>>
        /\ completion_order = <<>>
        /\ ~cover_called
        /\ sb_illustrations = <<>>
        /\ errors = <<>>
        /\ pc \in {"create", "dispatch", "check", "done"}
        /\ pc = "done" =>
              /\ response.status = "error"
              /\ (sb_exists /\ "update_storybook_status" \notin rec_failed) =>
                    sb_status = "failed"

\* A finished run of an empty poem, marked 'failed'.
C11_Witness ==
    /\ total_stanzas = 0
    /\ pc = "done"
    /\ sb_status = "failed"
    /\ response.status = "error"

\* The stanzas whose task raised or timed out.
FailedStanzas ==
    {k \in Stanzas : tasks[k] \in {"raised_provider", "raised_template", "cancelled"}}

\* The stanzas named by the error list.
ErrorStanzas == {errors[i].stanza : i \in 1..Len(errors)}

\* C12: a 'success' response maps exactly the stanzas without an error entry
\* (the stanzas whose task neither raised nor timed out, when add_illustration
\* never raised); if some stanza failed, the message has the 'out of' form with
\* count N-|F| and total N and carries one description per failed stanza, a
\* timeout description exactly for the timed-out ones; the message notes the
\* cover only when the response carries a cover image.
C12_PartialSuccessMessage ==
    (pc = "done" /\ response.status = "success") =>
        /\ response.image_data = Stanzas \ ErrorStanzas
        /\ "add_illustration" \notin rec_failed => ErrorStanzas = FailedStanzas
        /\ ErrorStanzas # {} =>
              /\ ~response.message.all
              /\ response.message.count = total_stanzas - Cardinality(ErrorStanzas)
              /\ response.message.total = total_stanzas
              /\ response.message.errors = errors
              /\ \A k \in ErrorStanzas : ErrorCount(k) = 1
              /\ \A i \in 1..Len(errors) :
                    errors[i].kind = "timeout" <=> tasks[errors[i].stanza] = "cancelled"
        /\ ErrorStanzas = {} =>
              response.message.all /\ response.message.count = total_stanzas
        /\ response.message.cover = response.cover_image
        /\ response.message.cover => cover_called

\* Three stanzas, the second timed out: 'success' with '2 out of 3'.
C12_Witness ==
    /\ pc = "done"
    /\ response.status = "success"
    /\ total_stanzas = 3
    /\ FailedStanzas = {2}
    /\ tasks[2] = "cancelled"
    /\ response.image_data = {1, 3}
    /\ response.message.count = 2
    /\ ~response.message.cover

\* The position of stanza k in the completion order (0: not finished).
CompletionRank(k) ==
    IF \E i \in 1..Len(completion_order) : completion_order[i] = k
    THEN CHOOSE i \in 1..Len(completion_order) : completion_order[i] = k
    ELSE 0

IsAlias(text, alias) ==
    /\ Len(text) = Len(alias)
    /\ \A i \in 1..Len(alias) : text[i] = alias[i] \/ text[i] = UpperChar(alias[i])

OccursIgnoringCase(name, text) ==
    \E off \in 0..(Len(text) - Len(name)) :
        \A j \in 1..Len(name) : LowerChar(name[j]) = LowerChar(text[off + j])

\* C17: get_names_in_stanza returns exactly the names of the list that occur in
\* the stanza, letter case aside; a name that is part of another matched name is
\* returned as well.
C17_NamesInStanza ==
    call.fn = "get_names_in_stanza" =>
        /\ \A i \in 1..Len(call.names) :
              call.names[i] \in call.result <=>
                  OccursIgnoringCase(call.names[i], call.stanza)
        /\ \A n \in call.result : \E i \in 1..Len(call.names) : call.names[i] = n

\* Names 'A' and 'A B' with the stanza 'a b': both are returned.
C17_Witness ==
    /\ call.fn = "get_names_in_stanza"
    /\ call.names = << <<"A">>, <<"A", " ", "B">> >>
    /\ call.stanza = <<"a", " ", "b">>
    /\ call.result = { <<"A">>, <<"A", " ", "B">> }

\* The lines of a text: the pieces between its line breaks.
RECURSIVE LinesOf(_)
LinesOf(text) ==
    IF \A i \in 1..Len(text) : text[i] # "\n"
    THEN <<text>>
    ELSE LET i == CHOOSE h \in 1..Len(text) :
                    text[h] = "\n" /\ \A j \in 1..(h - 1) : text[j] # "\n"
         IN  <<SubSeq(text, 1, i - 1)>> \o LinesOf(SubSeq(text, i + 1, Len(text)))

\* The lines joined again by line breaks.
RECURSIVE JoinLines(_)
JoinLines(lines) ==
    IF Len(lines) = 1 THEN lines[1]
    ELSE lines[1] \o <<"\n">> \o JoinLines(Tail(lines))

\* The maximal runs of non-empty lines, each as one text.
RECURSIVE RunsOf(_, _)
RunsOf(lines, run) ==
    LET closed == IF run = <<>> THEN <<>> ELSE <<JoinLines(run)>>
    IN  IF lines = <<>> THEN closed
        ELSE IF Head(lines) = <<>> THEN closed \o RunsOf(Tail(lines), <<>>)
        ELSE RunsOf(Tail(lines), Append(run, Head(lines)))

\* The text without its leading and trailing blanks and line breaks.
Trimmed(text) ==
    LET solid == {i \in 1..Len(text) : text[i] \notin {" ", "\n"}}
    IN  IF solid = {} THEN <<>>
        ELSE SubSeq(text, CHOOSE i \in solid : \A j \in solid : i <= j,
                          CHOOSE i \in solid : \A j \in solid : i >= j)

\* The stanzas of a poem: its maximal runs of non-empty lines, trimmed, without
\* the runs that are blank.
StanzasOf(poem_text) ==
    LET runs == RunsOf(LinesOf(poem_text), <<>>)
        kept == SelectSeq(runs, LAMBDA r : Trimmed(r) # <<>>)
    IN  [i \in 1..Len(kept) |-> Trimmed(kept[i])]

C19_BlankPoemHasNoStanza ==
    (/\ call.fn = "split_poem_into_stanzas"
     /\ \A i \in 1..Len(call.poem_text) : call.poem_text[i] \in {" ", "\n"}) =>
        call.result = <<>>

\* A poem of a line of spaces, an empty line and a line with one space.
C19_Witness ==
    /\ call.fn = "split_poem_into_stanzas"
    /\ call.poem_text = <<" ", " ", "\n", "\n", " ">>
    /\ call.result = <<>>

\* An evaluation of the reference set builder has been made.
RefsCalled == call.fn = "generate_illustration_for_stanza"

\* The photos of the persons that have one and whose name is in the presence
\* set, in the order of the persons.
OwnPhotos(persons, stanza_names) ==
    LET owners == SelectSeq(persons, LAMBDA p : p.name \in stanza_names /\ p.photo # "")
    IN  [i \in 1..Len(owners) |-> owners[i].photo]

\* C14: the reference list is the baby photo first (if present), then, in
\* parent order, exactly the photo of each parent whose name is in the parent
\* presence set, then, in list order, exactly the photo of each family member
\* whose name is in the family presence set, also when a named parent or
\* family member has no photo.
C14_ReferencesBelongToNamed ==
    RefsCalled =>
        \A e \in 1..Len(call.evaluations) :
            call.evaluations[e].reference_images =
                (IF call.request.baby_photo # "" THEN <<call.request.baby_photo>> ELSE <<>>)
                \o OwnPhotos(call.request.parents,
                             get_names_in_stanza(call.stanza, NamesOf(call.request.parents)))
                \o OwnPhotos(call.request.family_members,
                             get_names_in_stanza(call.stanza,
                                                 NamesOf(call.request.family_members)))

\* The matched names in request order, each once.
RECURSIVE MatchedInOrder(_, _)
MatchedInOrder(names, stanza_names) ==
    IF names = <<>> THEN <<>>
    ELSE LET rest == MatchedInOrder(SubSeq(names, 1, Len(names) - 1), stanza_names)
             last == names[Len(names)]
         IN  IF last \in stanza_names /\ \A i \in 1..Len(rest) : rest[i] # last
             THEN Append(rest, last)
             ELSE rest

\* 'A, B, and C': the names comma-joined with ', and ' before the final name.
RECURSIVE SerialList(_)
SerialList(names) ==
    IF Len(names) = 1 THEN <<", and ">> \o names[1]
    ELSE <<", ">> \o names[1] \o SerialList(Tail(names))

\* The requirement text that the stated forms give for the matched names.
StatedRequirement(matched, none_text) ==
    IF Len(matched) = 0 THEN <<none_text>>
    ELSE IF Len(matched) = 1
    THEN <<"Include ">> \o matched[1]
         \o <<" and use their photo as reference for accurate appearance.">>
    ELSE IF Len(matched) = 2
    THEN <<"Include ">> \o matched[1] \o <<" and ">> \o matched[2]
         \o <<", using their photos as reference for accurate appearance.">>
    ELSE <<"Include ">> \o matched[1] \o SerialList(Tail(matched))
         \o <<", using their photos as reference for accurate appearance.">>

\* C15: the requirement text of the k matched names is the 'No ... included'
\* sentence for k = 0, 'Include X and use their photo ...' for k = 1, 'Include
\* A and B, using their photos ...' for k = 2 and, for k >= 3, the names
\* comma-joined with ', and' before the final name, the names in request order.
C15_RequirementText ==
    RefsCalled =>
        \A e \in 1..Len(call.evaluations) :
            /\ call.evaluations[e].parent_requirements =
                   StatedRequirement(
                       MatchedInOrder(NamesOf(call.request.parents),
                           get_names_in_stanza(call.stanza, NamesOf(call.request.parents))),
                       NoParentsText)
            /\ call.evaluations[e].family_member_requirements =
                   StatedRequirement(
                       MatchedInOrder(NamesOf(call.request.family_members),
                           get_names_in_stanza(call.stanza,
                                               NamesOf(call.request.family_members))),
                       NoFamilyText)

\* C16: two evaluations with the same stanza text and the same request give
\* the same references and the same parent and family requirement strings.
C16_SameInputsSameResult ==
    (RefsCalled /\ Len(call.evaluations) = 2) =>
        call.evaluations[1] = call.evaluations[2]

\* The task of stanza k is inside its provider call: fetching a reference or in
\* the backend call.
PendingOnProvider(k) == tasks[k] \in {"fetching", "calling"}

\* C21: all N stanza tasks are created, numbered 1..N, before the scheduler
\* awaits any of them, and while the task for stanza k is pending on its
\* provider call the task for stanza k+1 can start its own provider call (and
\* end it): stanza execution is not serialized behind earlier stanzas.
C21_TasksRunConcurrently ==
    /\ pc = "await" =>
          /\ DOMAIN tasks = 1..total_stanzas
          /\ \A k \in Stanzas : tasks[k] # "none"
    /\ \A k \in Stanzas :
          (k + 1 \in Stanzas /\ PendingOnProvider(k)) =>
              /\ tasks[k + 1] = "created" => ENABLED TaskStart(k + 1)
              /\ tasks[k + 1] = "calling" => ENABLED TaskReturnsImage(k + 1)

\* The loop reported stanza k as a timeout.
TimedOut(k) == \E i \in 1..Len(errors) : errors[i] = ErrorEntry(k, "timeout")

\* C22: each stanza task is bounded by the timeout measured from its start: a
\* task without a result TimeoutT after its launch has been reported as a
\* timeout, and the scheduler never waits on one stanza beyond that bound.
C22_TimeoutFromTaskStart ==
    /\ \A k \in Stanzas :
          (now > LaunchTime + TimeoutT /\ tasks[k] \in InFlight \cup {"cancelled"}) =>
              TimedOut(k)
    /\ pc = "await" => now <= wait_started + TimeoutT

\* The step appends a timeout entry to the error list.
TimeoutStep ==
    /\ Len(errors') = Len(errors) + 1
    /\ errors'[Len(errors')].kind = "timeout"

\* C23: a timeout on stanza k's wait changes the task of stanza k only and does
\* not end the run; a task is cancelled only by its own timeout; and in a run
\* with a timeout every sibling that returned an image and was recorded without
\* a Recorder failure is in the storybook and in the response.
C23_TimeoutAffectsOnlyItsStanza ==
    /\ [][TimeoutStep =>
              /\ \A j \in Stanzas : j # stanza_num => tasks'[j] = tasks[j]
              /\ tasks'[stanza_num] = "cancelled"
              /\ pc' \in {"await", "check"}
              /\ response' = response]_vars
    /\ [](\A k \in Stanzas : tasks[k] = "cancelled" => TimedOut(k))
    /\ []((pc = "done" /\ sb_exists /\ rec_failed = {}
              /\ \E k \in Stanzas : TimedOut(k)) =>
             \A j \in Stanzas :
                 Produced(j) =>
                     /\ j \in RecordedStanzas
                     /\ response.status = "success"
                     /\ j \in response.image_data)

\* Stanza 1 timed out; stanza 2 was recorded and is in the successful response.
C23_Witness ==
    /\ pc = "done"
    /\ total_stanzas >= 2
    /\ tasks[1] = "cancelled"
    /\ TimedOut(1)
    /\ Produced(2)
    /\ 2 \in RecordedStanzas
    /\ response.status = "success"
    /\ 2 \in response.image_data

\* The loop has processed the result of every stanza.
AllResultsProcessed ==
    /\ stanza_num = total_stanzas + 1
    /\ \A k \in Stanzas : tasks[k] \notin InFlight
    /\ \A k \in Stanzas : k \in image_data \/ ErrorCount(k) = 1

\* C24: the phases of a run come in the order Created, Dispatched, Awaiting,
\* Finalizing, Terminal: no task exists before the storybook was created, the
\* cover generation starts only after the results of all N stanza tasks were
\* processed, 'completed' is written only after the cover stage has ended, and
\* 'failed' only with the loop ended, zero successes and the cover skipped.
C24_PhaseOrder ==
    /\ [](pc \in {"create", "dispatch", "await", "check", "cover", "finalize", "done"})
    /\ []((\E k \in Stanzas : tasks[k] # "none") => sb_exists)
    /\ [](pc \in {"await", "check", "cover", "finalize"} => sb_exists)
    /\ [](cover_called => AllResultsProcessed /\ image_data # {})
    /\ [](sb_status = "completed" => cover_called /\ pc = "done")
    /\ [](sb_status = "failed" =>
              AllResultsProcessed /\ image_data = {} /\ ~cover_called /\ pc = "done")
    /\ [][ /\ pc' # pc =>
                <<pc, pc'>> \in {<<"create", "dispatch">>, <<"create", "done">>,
                                 <<"dispatch", "await">>, <<"dispatch", "check">>,
                                 <<"await", "check">>, <<"check", "cover">>,
                                 <<"check", "done">>, <<"cover", "finalize">>,
                                 <<"finalize", "done">>}
           /\ (~cover_called /\ cover_called') => pc = "cover"
           /\ sb_status' # sb_status =>
                 \/ sb_status' = "pending" /\ pc = "create"
                 \/ sb_status' = "completed" /\ pc = "finalize"
                 \/ sb_status' = "failed" /\ pc = "check" ]_vars

\* A run of three stanzas that went through every phase and was marked completed.
C24_Witness ==
    /\ pc = "done"
    /\ total_stanzas = 3
    /\ cover_called
    /\ sb_status = "completed"
    /\ errors # <<>>

\* C25: when a run ends with zero successful stanzas, the storybook is marked
\* 'failed' together with an aggregate error message: its error text is set.
C25_FailedWithErrorText ==
    (pc = "done" /\ sb_status = "failed") => sb_error \notin {"unset", ""}

\* The error list has an entry for the cover.
CoverErrorLogged == \E i \in 1..Len(errors) : errors[i].kind = "cover"

\* C26: when the cover stage fails in a run with at least one successful
\* stanza, a failure entry for the cover is in the run's error list, so the
\* final message reports the cover failure.
C26_CoverFailureInErrors ==
    (CoverFailed /\ image_data # {}) =>
        /\ CoverErrorLogged
        /\ (pc = "done" /\ response.status = "success") =>
               \E i \in 1..Len(response.message.errors) :
                   response.message.errors[i].kind = "cover"

\* C27: after create_storybook returned, every photo reference given to the
\* provider, for a stanza or for the cover, is the stored reference the
\* Recorder produced, not the inline photo of the request.
C27_ProviderGetsStoredReferences ==
    sb_exists => provider_refs \subseteq {sb_photos}

\* C29: per-stanza failures are never retried: in one run the provider is
\* invoked at most once per stanza number and at most once for the cover,
\* whatever the outcomes, and a stanza whose result was processed is not
\* started again.
C29_NoRetry ==
    /\ \A k \in DOMAIN provider_calls : provider_calls[k] <= 1
    /\ \A k \in Stanzas : stanza_num > k => tasks[k] \notin InFlight
    /\ cover_called => pc # "cover"

\* A finished run in which a stanza raised, another timed out and the cover
\* failed, each after a single provider call.
C29_Witness ==
    /\ pc = "done"
    /\ \E k \in Stanzas : tasks[k] = "raised_provider" /\ provider_calls[k] = 1
    /\ \E k \in Stanzas : tasks[k] = "cancelled" /\ provider_calls[k] = 1
    /\ provider_calls[0] = 1
    /\ ~cover_image

\* C28: a provider's generate_illustration never raises: a reference that cannot
\* be fetched or decoded is skipped and the backend is called with the remaining
\* ones, and the call returns None only when the backend call raised or its
\* answer holds no usable image.
C28_ProviderNeverRaises ==
    call.fn = "generate_illustration" =>
        /\ call.result \in {"image", "unchecked", "None"}
        /\ call.generator = "GeminiGenerator" =>
               call.contents =
                   SelectSeq(call.reference_images, LAMBDA url : url = "fetched")
        /\ call.result = "None" =>
               \/ call.backend.raises
               \/ \A i \in 1..Len(call.backend.candidates) :
                      call.backend.candidates[i] # "valid"

\* The sections of the file for this style code (their first line begins with
\* the code) that have guideline lines.
SectionsOf(content, style_code) ==
    {i \in 1..Len(content) :
        /\ StartsWith(content[i].head, style_code)
        /\ content[i].lines >= 1}

\* C30: load_style_guidelines ends with guideline text for every style code and
\* every content of the styles file: a recognized code gives that style's
\* guidelines, an unrecognized code gives the default style's, and the fallback
\* does not recurse without bound: it is one call for the default style, also
\* when the default style is absent from the file or has no guideline lines.
C30_StyleFallbackBounded ==
    call.fn = "load_style_guidelines" =>
        /\ call.depth <= 2
        /\ call.result \in {Pending, BasicFallback}
           \/ /\ call.result.kind = "guidelines"
              /\ LET asked == SectionsOf(call.content, call.style_code)
                 IN  IF asked # {}
                     THEN call.result.section \in asked
                     ELSE call.result.section \in SectionsOf(call.content, DefaultStyle)

\* C31: whenever the run returns 'success', the keys of the response's stanza
\* to image mapping are exactly the stanza numbers of the illustration records
\* of its storybook, one record per stanza.
C31_ResponseKeysAreRecords ==
    (pc = "done" /\ response.status = "success") =>
        /\ response.image_data = RecordedStanzas
        /\ Len(sb_illustrations) = Cardinality(response.image_data)

\* A successful run with two recorded stanzas and one stanza whose
\* add_illustration raised.
C31_Witness ==
    /\ pc = "done"
    /\ response.status = "success"
    /\ Cardinality(response.image_data) = 2
    /\ "add_illustration" \in rec_failed
    /\ response.image_data = RecordedStanzas

\* C32: whenever the response contains a cover image (and the message notes
\* the storybook cover), the storybook has a cover reference attached; and a
\* storybook marked 'completed' has a cover reference only if the cover was
\* generated in that run.
C32_ResponseCoverIsAttached ==
    /\ (pc = "done" /\ response.status = "success"
           /\ (response.cover_image \/ response.message.cover)) => sb_cover
    /\ (sb_status = "completed" /\ sb_cover) => cover_image

\* C33: once the run has written 'completed' or 'failed' to its storybook it
\* changes nothing more of it: illustrations are appended and the cover is
\* attached only while the status is 'pending'.
C33_NoMutationAfterTerminal ==
    [][ /\ sb_status \in Terminal =>
              UNCHANGED <<sb_exists, sb_status, sb_illustrations, sb_cover,
                          sb_error, sb_photos>>
        /\ (sb_illustrations' # sb_illustrations \/ sb_cover' # sb_cover) =>
              sb_status = "pending" ]_vars

\* A finished run that appended two illustrations and attached the cover before
\* marking the storybook completed.
C33_Witness ==
    /\ pc = "done"
    /\ sb_status = "completed"
    /\ Len(sb_illustrations) = 2
    /\ sb_cover

\* C34: if create_storybook fails, no storybook document is written, no stanza
\* task is dispatched, no provider is called, and the response status is 'error'.
C34_CreateFailureStopsRun ==
    "create_storybook" \in rec_failed =>
        /\ ~sb_exists
        /\ sb_status = "absent"
        /\ sb_illustrations = <<>>
        /\ \A k \in Stanzas : tasks[k] = "none"
        /\ \A k \in DOMAIN provider_calls : provider_calls[k] = 0
        /\ ~cover_called
        /\ pc = "done"
        /\ response.status = "error"

\* create_storybook raised for a poem of three stanzas and the run returned.
C34_Witness ==
    /\ "create_storybook" \in rec_failed
    /\ total_stanzas = 3
    /\ pc = "done"
    /\ response = ErrorResponse

\* C35: get_current_user rejects an empty or 'anonymous@example.com' user-email
\* header with status 400 ('Valid user email is required') without creating or
\* updating any user record; status 401 is produced only when the user lookup
\* or creation itself fails.
C35_InvalidEmailIs400 ==
    call.fn = "get_current_user" =>
        /\ call.user_email \in {"", "anonymous@example.com"} =>
              /\ call.result.raised
              /\ call.result.status_code = BadRequest
              /\ call.result.detail = "Valid user email is required"
              /\ ~call.result.user_written
        /\ (call.result.raised /\ call.result.status_code = Unauthorized) =>
              /\ call.user_email \notin {"", "anonymous@example.com"}
              /\ ~call.create_ok

\* C36: get_storybook_details returns a storybook's data only to its owner: a
\* call by another user raises and returns no storybook data or signed URL, and
\* a call for a missing storybook raises.
C36_DetailsOnlyToOwner ==
    call.fn = "get_storybook_details" =>
        /\ ~call.storybook.exists =>
              call.result.raised /\ "data" \notin DOMAIN call.result
        /\ (call.storybook.exists /\ call.storybook.userId # call.user_id) =>
              call.result.raised /\ "data" \notin DOMAIN call.result
        /\ ~call.result.raised =>
              /\ call.storybook.exists
              /\ call.result.data.userId = call.user_id

\* Another user asked for a storybook that has a cover and an illustration in
\* storage, signing would have succeeded, and the call raised.
C36_Witness ==
    /\ call.fn = "get_storybook_details"
    /\ call.storybook.exists
    /\ call.storybook.userId # call.user_id
    /\ call.storybook.coverUrl = "blob"
    /\ call.storybook.illustrations = <<"blob">>
    /\ call.sign_ok
    /\ call.result.raised

====
